---------------------------- MODULE Spec2Model ----------------------------
(***************************************************************************)
(* Extraction / identity-resolution pipelines of thn-gastos.               *)
(*                                                                         *)
(*   app.py            receipt pipeline      analyze -> END                *)
(*   app2.py           fuel-slip pipeline    analyze -> END                *)
(*   app_rendicion.py  rendicion pipeline    analyze -> identify_chofer    *)
(*                                           -> END                        *)
(*   api.py            HTTP handlers /analyze-receipt, /analyze-rendicion  *)
(*                                                                         *)
(* A run is one invocation of a compiled graph by its caller.  The vision  *)
(* model, the matching model, the drivers_info table and the clock are     *)
(* external: every answer they can give (a value of the declared shape, or *)
(* an exception) is a nondeterministic input of the step that calls them.  *)
(***************************************************************************)
EXTENDS Integers, Sequences, FiniteSets, TLC

\* Number of pipeline runs in flight at once.
NumRuns == 2

Runs == 1..NumRuns

(***************************************************************************)
(* Python values.  None is the empty tuple and a present value x is <<x>>, *)
(* so that an Optional field always holds a tuple.                         *)
(***************************************************************************)
None == << >>

Some(x) == << x >>

IsNone(m) == Len(m) = 0

Val(m) == m[1]

\* Python truthiness of an Optional[str]: None and "" are falsy.
Truthy(m) == ~IsNone(m) /\ Val(m) # ""

(***************************************************************************)
(* Schemas (pydantic models).                                              *)
(***************************************************************************)
CategoriaGasto ==
    {"PEAJE", "MIGRAC", "ADUANA", "TUNEL", "REPRESEN", "SENASA", "ISCAMEN",
     "GOMERIA", "VARIOS"}

\* GastoItem: categoria is the closed enum, monto and pais are required.
GastoItem(g) == g.categoria \in CategoriaGasto

\* ChoferInfo: nombre_completo and user_id are both required strings.
ChoferInfo(c) == ~IsNone(c.nombre_completo) /\ ~IsNone(c.user_id)

\* ChoferMatchSchema: chofer is a required ChoferInfo.
ChoferMatchSchema(m) == ~IsNone(m.chofer) /\ ChoferInfo(Val(m.chofer))

\* RendicionSchema: chofer is the only required scalar; numero_op, fecha and
\* chofer_info are Optional; the two lists hold validated items.
RendicionSchema(p) ==
    /\ ~IsNone(p.chofer)
    /\ \A i \in 1..Len(p.gastos) : GastoItem(p.gastos[i])
    /\ IsNone(p.chofer_info) \/ ChoferInfo(Val(p.chofer_info))

\* ReceiptSchema: date and total are required, the rest Optional.
ReceiptSchema(p) == ~IsNone(p.date) /\ ~IsNone(p.total)

\* Mutation: nombre_operario declared Optional like kilometraje.
RemitoCombustibleSchema_lax(p) ==
    /\ ~IsNone(p.numero_remito)
    /\ ~IsNone(p.fecha)
    /\ ~IsNone(p.patente)
    /\ ~IsNone(p.litros)
    /\ ~IsNone(p.historico_inicial)
    /\ ~IsNone(p.historico_final)
    /\ ~IsNone(p.nombre_conductor)

\* RemitoCombustibleSchema: every field but kilometraje is required.
RemitoCombustibleSchema(p) ==
    /\ ~IsNone(p.numero_remito)
    /\ ~IsNone(p.fecha)
    /\ ~IsNone(p.patente)
    /\ ~IsNone(p.litros)
    /\ ~IsNone(p.historico_inicial)
    /\ ~IsNone(p.historico_final)
    /\ ~IsNone(p.nombre_conductor)
    /\ ~IsNone(p.nombre_operario)

(***************************************************************************)
(* Answers of the external collaborators.  An answer either raises or      *)
(* carries a payload; the payloads below are the shapes the declared       *)
(* schemas let the model produce, valid and invalid.                       *)
(***************************************************************************)
Raised == [raised |-> TRUE, value |-> None]

Returned(x) == [raised |-> FALSE, value |-> Some(x)]

\* Rows of drivers_info (nombre_completo, user_id).
Juan == [nombre_completo |-> Some("Juan Perez"), user_id |-> Some("u1")]

Pedro == [nombre_completo |-> Some("Pedro Soto"), user_id |-> Some("u2")]

\* A well-formed ChoferInfo that is no row of drivers_info.
Invented == [nombre_completo |-> Some("Juan Peres"), user_id |-> Some("u9")]

\* A ChoferInfo without its required user_id.
NoUserId == [nombre_completo |-> Some("Juan Perez"), user_id |-> None]

Peaje == [categoria |-> "PEAJE", monto |-> 50000, pais |-> "Chile"]

Comida == [categoria |-> "COMIDA", monto |-> 1200, pais |-> "Chile"]

\* A grid cell holding 0, returned as an entry.
GomeriaZero == [categoria |-> "GOMERIA", monto |-> 0, pais |-> "Chile"]

Viatico == [monto |-> 30000, pais |-> "Chile"]

\* A fully filled rendicion sheet.
SheetFull ==
    [numero_op |-> Some("677524"), fecha |-> Some("24/11/2025"),
     chofer |-> Some("Juan Perez"), gastos |-> << Peaje >>,
     viaticos |-> << Viatico >>, chofer_info |-> None]

\* numero_op and fecha blank on the form.
SheetBlank ==
    [SheetFull EXCEPT !.numero_op = None, !.fecha = None, !.gastos = << >>,
                      !.viaticos = << >>]

\* chofer returned as null although the schema requires it.
SheetNoChofer == [SheetFull EXCEPT !.chofer = None]

\* chofer returned as the empty string.
SheetEmptyChofer == [SheetBlank EXCEPT !.chofer = Some("")]

\* The extraction model filled chofer_info, which RendicionSchema exposes.
SheetWithInfo == [SheetFull EXCEPT !.chofer_info = Some(Invented)]

\* A column label outside CategoriaGasto.
SheetBadCategoria == [SheetFull EXCEPT !.gastos = << Peaje, Comida >>]

\* The zero cell of the grid listed next to the non-zero one, on a sheet
\* whose chofer line is empty.
SheetZeroCell ==
    [SheetFull EXCEPT !.chofer = Some(""), !.gastos = << Peaje, GomeriaZero >>]

RendicionPayloads ==
    {SheetFull, SheetBlank, SheetNoChofer, SheetEmptyChofer, SheetWithInfo,
     SheetBadCategoria, SheetZeroCell}

ReceiptFull ==
    [referencia |-> Some("B-1001"), razon_social |-> Some("Shell"),
     date |-> Some("14/10/2025"), total |-> Some(15990),
     moneda |-> Some("CLP"), descripcion |-> Some("Combustible"),
     identificador_fiscal |-> Some("76.123.456-7"),
     keywords |-> << "combustible", "diesel" >>]

ReceiptSparse ==
    [ReceiptFull EXCEPT !.referencia = None, !.razon_social = None,
                        !.moneda = None, !.descripcion = None,
                        !.identificador_fiscal = None, !.keywords = << >>]

ReceiptNoDate == [ReceiptFull EXCEPT !.date = None]

ReceiptNoTotal == [ReceiptSparse EXCEPT !.total = None]

\* A currency code outside the five of the field's description.
ReceiptDollar == [ReceiptFull EXCEPT !.moneda = Some("USD")]

ReceiptPayloads ==
    {ReceiptFull, ReceiptSparse, ReceiptNoDate, ReceiptNoTotal, ReceiptDollar}

RemitoFull ==
    [numero_remito |-> Some("0001-234"), fecha |-> Some("2025-10-14"),
     patente |-> Some("AB123CD"), kilometraje |-> Some(120500),
     litros |-> Some(350), historico_inicial |-> Some(1000),
     historico_final |-> Some(1350), nombre_conductor |-> Some("Juan Perez"),
     nombre_operario |-> Some("Luis Rojas")]

RemitoNoKm == [RemitoFull EXCEPT !.kilometraje = None]

RemitoNoLitros == [RemitoFull EXCEPT !.litros = None]

RemitoNoOperario == [RemitoNoKm EXCEPT !.nombre_operario = None]

RemitoPayloads == {RemitoFull, RemitoNoKm, RemitoNoLitros, RemitoNoOperario}

\* Snapshots of drivers_info: no rows, or two rows.
Directories == { << >>, << Juan, Pedro >> }

\* What the matching model may answer: a row, something else, or a
\* payload that fails ChoferMatchSchema.
MatchPayloads == {[chofer |-> Some(Juan)], [chofer |-> Some(Invented)],
                  [chofer |-> Some(NoUserId)]}

\* datetime.now() at the moment of the call: a day of one digit in a month
\* of two.
Todays == {[day |-> 2, month |-> 11, year |-> 2026]}

Digit(n) == << "0", "1", "2", "3", "4", "5", "6", "7", "8", "9" >>[n + 1]

\* Mutation: day and month written without their leading zero.
strftime_unpadded(now) ==
    LET Plain(n) == IF n < 10 THEN Digit(n) ELSE Digit(n \div 10) \o Digit(n % 10)
    IN  Plain(now.day) \o "/" \o Plain(now.month) \o "/"
        \o Digit(now.year \div 1000) \o Digit((now.year \div 100) % 10)
        \o Digit((now.year \div 10) % 10) \o Digit(now.year % 10)

\* now.strftime("%d/%m/%Y"): two digits, two digits, four digits.
strftime(now) ==
    Digit(now.day \div 10) \o Digit(now.day % 10) \o "/"
    \o Digit(now.month \div 10) \o Digit(now.month % 10) \o "/"
    \o Digit(now.year \div 1000) \o Digit((now.year \div 100) % 10)
    \o Digit((now.year \div 10) % 10) \o Digit(now.year % 10)

Answers(payloads) == {Raised} \cup {Returned(x) : x \in payloads}

(***************************************************************************)
(* Requests.  /analyze-receipt and /analyze-rendicion take an image_url    *)
(* and an optional conductor_description; app2 is run from its command     *)
(* line with an image_url only.                                            *)
(***************************************************************************)
Requests ==
    {[app |-> "app", image_url |-> "https://img/peaje.jpg",
      conductor_description |-> Some("Peaje de Cristo Redentor")],
     [app |-> "app2", image_url |-> "https://img/remito.jpg",
      conductor_description |-> None],
     [app |-> "app_rendicion", image_url |-> "https://img/rendicion.jpg",
      conductor_description |-> None]}

VARIABLES
    request,    \* request[r]: what the caller of run r sent
    state,      \* state[r]: the GraphState the graph threads through run r
    pc,         \* pc[r]: the step run r executes next
    drivers,    \* drivers[r]: the local `drivers` of identify_chofer_node
    io,         \* io[r]: the external calls run r has made, with their answers
    stdout,     \* stdout[r]: what run r has printed or logged as an error
    response    \* response[r]: what the caller of run r received, or None

vars == << request, state, pc, drivers, io, stdout, response >>

\* Mutation: one module-level state shared by every invocation.
invoke_state_shared(r) == 1

\* The GraphState a node of run r is handed: the one built for that
\* invocation.
invoke_state(r) == r

\* The state the handler passes to invoke().
GraphState(req) ==
    [image_url |-> req.image_url,
     conductor_description |-> req.conductor_description,
     result |-> None]

\* Mutation: the rendicion graph entered at its second node.
entry_point_identify(app) ==
    IF app = "app_rendicion" THEN "identify_chofer" ELSE "analyze"

\* graph.set_entry_point("analyze"), the same in the three graphs.
entry_point(app) == "analyze"

Init ==
    /\ request \in [Runs -> Requests]
    /\ state = [r \in Runs |-> GraphState(request[r])]
    /\ pc = [r \in Runs |-> entry_point(request[r].app)]
    /\ drivers = [r \in Runs |-> << >>]
    /\ io = [r \in Runs |-> << >>]
    /\ stdout = [r \in Runs |-> {}]
    /\ response = [r \in Runs |-> None]

(***************************************************************************)
(* llm.with_structured_output(Schema): the model's answer is parsed into   *)
(* Schema; an answer that does not validate raises like a failed call.     *)
(***************************************************************************)
receipt_structured_llm(a) ==
    IF a.raised \/ ~ReceiptSchema(Val(a.value)) THEN Raised ELSE a

remito_structured_llm(a) ==
    IF a.raised \/ ~RemitoCombustibleSchema(Val(a.value)) THEN Raised ELSE a

structured_llm(a) ==
    IF a.raised \/ ~RendicionSchema(Val(a.value)) THEN Raised ELSE a

chofer_match_llm(a) ==
    IF a.raised \/ ~ChoferMatchSchema(Val(a.value)) THEN Raised ELSE a

(***************************************************************************)
(* What the callers hand back.                                             *)
(***************************************************************************)
\* Mutation: the except branch answers 200 with an empty body.
HTTPException_empty200 == [status |-> 200, body |-> None]

\* except Exception -> HTTPException(status_code=500): no record.
HTTPException == [status |-> 500, body |-> None]

\* response_model=ReceiptResponse keeps the fields it declares (keywords
\* is not one of them); date and total are not Optional, so a None there
\* fails response validation.
ReceiptResponse(d) ==
    IF IsNone(d.date) \/ IsNone(d.total)
    THEN HTTPException
    ELSE [status |-> 200,
          body |-> Some([f \in {"referencia", "razon_social", "date", "total",
                                "moneda", "descripcion", "identificador_fiscal"}
                         |-> d[f]])]

\* response_model=RendicionResponse: fecha and chofer are str, so a None
\* there fails response validation.
RendicionResponse(d) ==
    IF IsNone(d.fecha) \/ IsNone(d.chofer)
    THEN HTTPException
    ELSE [status |-> 200, body |-> Some(d)]

\* app2's command line prints the record and exits 0; an exception out of
\* invoke() ends the process with a traceback and no record.
RemitoPrinted(d) == [status |-> 0, body |-> Some(d)]

RemitoCrashed == [status |-> 1, body |-> None]

\* One external call as io records it.
Call(name, s, a) ==
    [call |-> name, image_url |-> s.image_url,
     conductor_description |-> s.conductor_description, answer |-> a]

\* The handler's except branch: log the error, answer 500.
Fail(r, resp) ==
    /\ stdout' = [stdout EXCEPT ![r] = @ \cup {"Error al procesar la imagen"}]
    /\ response' = [response EXCEPT ![r] = Some(resp)]
    /\ pc' = [pc EXCEPT ![r] = "done"]

(***************************************************************************)
(* app.py: analyze -> END, called by analyze_receipt.                      *)
(***************************************************************************)
app_analyze_node(r) ==
    /\ pc[r] = "analyze"
    /\ request[r].app = "app"
    /\ \E a \in Answers(ReceiptPayloads) :
         LET s == invoke_state(r)
             parsed == receipt_structured_llm(a)
         IN  /\ io' = [io EXCEPT ![r] = Append(@, Call("structured_llm", state[s], a))]
             /\ IF parsed.raised
                THEN /\ Fail(r, HTTPException)
                     /\ state' = state
                ELSE /\ state' = [state EXCEPT ![s].result = parsed.value]
                     /\ response' = [response EXCEPT
                                       ![r] = Some(ReceiptResponse(Val(state'[s].result)))]
                     /\ pc' = [pc EXCEPT ![r] = "done"]
                     /\ stdout' = stdout
    /\ UNCHANGED << request, drivers >>

(***************************************************************************)
(* app2.py: analyze -> END, called from the command line.                  *)
(***************************************************************************)
app2_analyze_node(r) ==
    /\ pc[r] = "analyze"
    /\ request[r].app = "app2"
    /\ \E a \in Answers(RemitoPayloads) :
         LET s == invoke_state(r)
             parsed == remito_structured_llm(a)
         IN  /\ io' = [io EXCEPT ![r] = Append(@, Call("structured_llm", state[s], a))]
             /\ IF parsed.raised
                THEN /\ response' = [response EXCEPT ![r] = Some(RemitoCrashed)]
                     /\ state' = state
                ELSE /\ state' = [state EXCEPT ![s].result = parsed.value]
                     /\ response' = [response EXCEPT
                                       ![r] = Some(RemitoPrinted(Val(state'[s].result)))]
             /\ pc' = [pc EXCEPT ![r] = "done"]
    /\ UNCHANGED << request, drivers, stdout >>

(***************************************************************************)
(* app_rendicion.py: analyze -> identify_chofer -> END, called by          *)
(* analyze_rendicion.                                                      *)
(***************************************************************************)
\* Mutation: the edge out of analyze leads straight to END.
after_analyze_skip == "respond"

\* graph.add_edge("analyze", "identify_chofer")
after_analyze == "identify_chofer"

analyze_node(r) ==
    /\ pc[r] = "analyze"
    /\ request[r].app = "app_rendicion"
    /\ \E a \in Answers(RendicionPayloads) :
         LET s == invoke_state(r)
             parsed == structured_llm(a)
         IN  /\ io' = [io EXCEPT ![r] = Append(@, Call("structured_llm", state[s], a))]
             /\ IF parsed.raised
                THEN /\ Fail(r, HTTPException)
                     /\ state' = state
                ELSE /\ state' = [state EXCEPT ![s].result = parsed.value]
                     /\ pc' = [pc EXCEPT ![r] = after_analyze]
                     /\ UNCHANGED << stdout, response >>
    /\ UNCHANGED << request, drivers >>

\* Mutation: the empty-directory test left out.
no_drivers_never(d) == FALSE

\* Mutation: the matched name also written over the extracted chofer.
with_chofer_info_renaming(result, chofer) ==
    [result EXCEPT !.chofer_info = Some(chofer), !.chofer = chofer.nombre_completo]

\* Mutation: the matching call tried again after an error.
on_match_error_retry == "chofer_match"

\* `if not drivers`: nothing to resolve against.
no_drivers(d) == d = << >>

\* result["chofer_info"] = matched.chofer.model_dump()
with_chofer_info(result, chofer) == [result EXCEPT !.chofer_info = Some(chofer)]

\* except Exception: print and return state, so the graph goes on to END.
on_match_error == "respond"

\* identify_chofer_node up to the point where it has the directory: the
\* chofer test, the drivers_info query and the empty-directory test.
identify_chofer_node(r) ==
    /\ pc[r] = "identify_chofer"
    /\ LET s == invoke_state(r)
           result == Val(state[s].result)
           chofer_extraido == result.chofer
       IN  IF IsNone(state[s].result)
           THEN \* state["result"] raises KeyError
                /\ Fail(r, HTTPException)
                /\ UNCHANGED << drivers, io >>
           ELSE IF ~Truthy(chofer_extraido)
           THEN /\ pc' = [pc EXCEPT ![r] = "respond"]
                /\ UNCHANGED << drivers, io, stdout, response >>
           ELSE \E a \in Answers(Directories) :
                  /\ io' = [io EXCEPT ![r] = Append(@, Call("drivers_info", state[s], a))]
                  /\ IF a.raised
                     THEN /\ Fail(r, HTTPException)
                          /\ drivers' = drivers
                     ELSE /\ drivers' = [drivers EXCEPT ![r] = Val(a.value)]
                          /\ pc' = [pc EXCEPT
                                      ![r] = IF no_drivers(drivers'[r])
                                             THEN "respond"
                                             ELSE "chofer_match"]
                          /\ UNCHANGED << stdout, response >>
    /\ UNCHANGED << request, state >>

\* The rest of identify_chofer_node: the matching call inside try/except.
identify_chofer_match(r) ==
    /\ pc[r] = "chofer_match"
    /\ \E a \in Answers(MatchPayloads) :
         LET s == invoke_state(r)
             matched == chofer_match_llm(a)
         IN  /\ io' = [io EXCEPT ![r] = Append(@, Call("chofer_match_llm", state[s], a))]
             /\ IF matched.raised
                THEN /\ stdout' = [stdout EXCEPT
                                     ![r] = @ \cup {"Error identificando chofer"}]
                     /\ state' = state
                     /\ pc' = [pc EXCEPT ![r] = on_match_error]
                ELSE /\ state' = [state EXCEPT
                                    ![s].result =
                                        Some(with_chofer_info(
                                                 Val(@), Val(Val(matched.value).chofer)))]
                     /\ stdout' = stdout
                     /\ pc' = [pc EXCEPT ![r] = "respond"]
    /\ UNCHANGED << request, drivers, response >>

\* analyze_rendicion after invoke() has returned: today's date for a
\* missing fecha, then the response.
analyze_rendicion(r) ==
    /\ pc[r] = "respond"
    /\ LET s == invoke_state(r)
           response_data == Val(state[s].result)
       IN  IF IsNone(response_data.fecha)
           THEN \E now \in Todays :
                  LET today == strftime(now)
                  IN  /\ io' = [io EXCEPT
                                  ![r] = Append(@, Call("now", state[s], Returned(now)))]
                      /\ state' = [state EXCEPT
                                     ![s].result = Some([response_data EXCEPT
                                                           !.fecha = Some(today)])]
           ELSE UNCHANGED << io, state >>
    /\ response' = [response EXCEPT
                      ![r] = Some(RendicionResponse(Val(state'[invoke_state(r)].result)))]
    /\ pc' = [pc EXCEPT ![r] = "done"]
    /\ UNCHANGED << request, drivers, stdout >>

Next ==
    \E r \in Runs :
        \/ app_analyze_node(r)
        \/ app2_analyze_node(r)
        \/ analyze_node(r)
        \/ identify_chofer_node(r)
        \/ identify_chofer_match(r)
        \/ analyze_rendicion(r)

Spec == Init /\ [][Next]_vars

\* The steps of one run.
RunStep(r) ==
    \/ app_analyze_node(r)
    \/ app2_analyze_node(r)
    \/ analyze_node(r)
    \/ identify_chofer_node(r)
    \/ identify_chofer_match(r)
    \/ analyze_rendicion(r)

\* invoke() runs the nodes of a graph one after the other and every
\* external call returns or raises: a run that can take a step takes it.
FairSpec == Spec /\ \A r \in Runs : WF_vars(RunStep(r))

(***************************************************************************)
(* Vocabulary of the properties.                                           *)
(***************************************************************************)
Rendicion(r) == request[r].app = "app_rendicion"

Done(r) == pc[r] = "done"

\* The caller of a finished run got a record / got an error.
Succeeded(r) == Done(r) /\ Val(response[r]).status \in {200, 0}

Errored(r) == Done(r) /\ Val(response[r]).status \in {500, 1}

\* The record the caller received.
Body(r) == Val(Val(response[r]).body)

\* Positions in io[r] of the calls to one collaborator.
CallsTo(r, name) == {i \in 1..Len(io[r]) : io[r][i].call = name}

\* The answer run r got from a collaborator it has called.
AnswerOf(r, name) == io[r][CHOOSE i \in CallsTo(r, name) : TRUE].answer

\* The payload fails the schema of the graph that asked for it.
Invalid(app, payload) ==
    CASE app = "app" -> ~ReceiptSchema(payload)
      [] app = "app2" -> ~RemitoCombustibleSchema(payload)
      [] app = "app_rendicion" -> ~RendicionSchema(payload)

\* Run r has made its extraction call and it failed / it succeeded.
ExtractionFailed(r) ==
    /\ CallsTo(r, "structured_llm") # {}
    /\ LET a == AnswerOf(r, "structured_llm")
       IN  a.raised \/ Invalid(request[r].app, Val(a.value))

ExtractionSucceeded(r) ==
    /\ CallsTo(r, "structured_llm") # {}
    /\ ~ExtractionFailed(r)

\* What the Extraction Stage of run r produced.
Extracted(r) == Val(AnswerOf(r, "structured_llm").value)

\* The directory query / the matching call of run r raised.
FetchRaised(r) ==
    CallsTo(r, "drivers_info") # {} /\ AnswerOf(r, "drivers_info").raised

MatchRaised(r) ==
    /\ CallsTo(r, "chofer_match_llm") # {}
    /\ LET a == AnswerOf(r, "chofer_match_llm")
       IN  a.raised \/ ~ChoferMatchSchema(Val(a.value))

\* The directory query of run r returned this snapshot.
Fetched(r, d) ==
    /\ CallsTo(r, "drivers_info") # {}
    /\ AnswerOf(r, "drivers_info") = Returned(d)

(***************************************************************************)
(* C1.  In a rendicion run whose extraction succeeded with a non-empty     *)
(* chofer and whose directory is non-empty, an error of the matching call  *)
(* is reported and not propagated, the run still ends successfully, and    *)
(* the returned record has chofer_info = None.                             *)
(***************************************************************************)
C1_MatchErrorLeavesNoIdentity ==
    \A r \in Runs :
        Rendicion(r) /\ MatchRaised(r) =>
            /\ "Error identificando chofer" \in stdout[r]
            /\ pc[r] \in {"respond", "done"}
            /\ Done(r) => Succeeded(r) /\ IsNone(Body(r).chofer_info)

(***************************************************************************)
(* C2.  Any external-call error inside the Identity Resolution Stage, the  *)
(* drivers_info query included, leaves the run successful: it ends with    *)
(* the extracted record and no resolved identity.                          *)
(***************************************************************************)
C2_StageErrorNeverFailsRun ==
    \A r \in Runs :
        Rendicion(r) /\ Done(r) /\ (FetchRaised(r) \/ MatchRaised(r)) =>
            Succeeded(r) /\ IsNone(Body(r).chofer_info)

(***************************************************************************)
(* C3.  Short-circuit of identity resolution.  When the extracted chofer   *)
(* is empty, or the directory fetched is empty, the stage leaves the       *)
(* record as extraction produced it, raises and reports nothing, and the   *)
(* matching model is never called in that run; with an empty chofer the    *)
(* directory is not fetched either.                                        *)
(***************************************************************************)
EmptyChofer(r) ==
    Rendicion(r) /\ ExtractionSucceeded(r) /\ ~Truthy(Extracted(r).chofer)

EmptyDirectory(r) == Rendicion(r) /\ Fetched(r, << >>)

C3_ShortCircuit ==
    \A r \in Runs :
        EmptyChofer(r) \/ EmptyDirectory(r) =>
            /\ CallsTo(r, "chofer_match_llm") = {}
            /\ EmptyChofer(r) => CallsTo(r, "drivers_info") = {}
            /\ stdout[r] = {}
            /\ pc[r] \in {"identify_chofer", "respond", "done"}
            /\ pc[r] \in {"identify_chofer", "respond"} =>
                   state[r].result = Some(Extracted(r))
            /\ Done(r) =>
                   /\ Succeeded(r)
                   /\ Body(r).chofer_info = Extracted(r).chofer_info
                   /\ Body(r).chofer = Extracted(r).chofer

\* Both short-circuits have been taken and the runs have answered.
C3_Witness ==
    \E r1, r2 \in Runs :
        /\ EmptyChofer(r1) /\ Succeeded(r1)
        /\ EmptyDirectory(r2) /\ Succeeded(r2)

(***************************************************************************)
(* C4.  In every rendicion run that ends successfully, chofer_info is      *)
(* None or equals one row of the drivers_info snapshot fetched in that     *)
(* run.                                                                    *)
(***************************************************************************)
C4_IdentityFromDirectory ==
    \A r \in Runs :
        Rendicion(r) /\ Succeeded(r) =>
            \/ IsNone(Body(r).chofer_info)
            \/ \E i \in 1..Len(drivers[r]) :
                   drivers[r][i] = Val(Body(r).chofer_info)

(***************************************************************************)
(* C5.  For the three document types: when the model answers with None in  *)
(* a field its schema marks required, the run ends as a failure; no record *)
(* returned as a success has None in a required field.                     *)
(***************************************************************************)
Required(app) ==
    CASE app = "app" -> {"date", "total"}
      [] app = "app2" -> {"numero_remito", "fecha", "patente", "litros",
                          "historico_inicial", "historico_final",
                          "nombre_conductor", "nombre_operario"}
      [] app = "app_rendicion" -> {"chofer"}

\* The extraction model of run r answered with a required field set to None.
RequiredNull(r) ==
    /\ CallsTo(r, "structured_llm") # {}
    /\ ~AnswerOf(r, "structured_llm").raised
    /\ \E f \in Required(request[r].app) : IsNone(Extracted(r)[f])

C5_RequiredNullFails ==
    \A r \in Runs :
        /\ RequiredNull(r) => Errored(r)
        /\ Succeeded(r) =>
               \A f \in Required(request[r].app) : ~IsNone(Body(r)[f])

\* Two graphs have each rejected an answer with a required None.
C5_Witness ==
    \E r1, r2 \in Runs :
        /\ request[r1].app = "app_rendicion" /\ RequiredNull(r1) /\ Errored(r1)
        /\ request[r2].app = "app2" /\ RequiredNull(r2) /\ Errored(r2)

(***************************************************************************)
(* C6.  A finished run hands its caller exactly one of a complete record   *)
(* or an error.  When the extraction stage fails (the call raises or its   *)
(* output does not validate) the caller gets an error and no record: HTTP  *)
(* 500 from the two handlers, a crash of app2's command line.              *)
(***************************************************************************)
ResponseFields(app) ==
    CASE app = "app" -> {"referencia", "razon_social", "date", "total",
                         "moneda", "descripcion", "identificador_fiscal"}
      [] app = "app2" -> {"numero_remito", "fecha", "patente", "kilometraje",
                          "litros", "historico_inicial", "historico_final",
                          "nombre_conductor", "nombre_operario"}
      [] app = "app_rendicion" -> {"numero_op", "fecha", "chofer", "gastos",
                                   "viaticos", "chofer_info"}

C6_RecordOrError ==
    \A r \in Runs :
        /\ ~Done(r) => IsNone(response[r])
        /\ Done(r) =>
               /\ ~IsNone(response[r])
               /\ Succeeded(r) # Errored(r)
               /\ Errored(r) => IsNone(Val(response[r]).body)
               /\ Succeeded(r) =>
                      /\ ~IsNone(Val(response[r]).body)
                      /\ DOMAIN Body(r) = ResponseFields(request[r].app)
                      /\ ExtractionSucceeded(r)
        /\ ExtractionFailed(r) =>
               /\ Errored(r)
               /\ request[r].app # "app2" => Val(response[r]).status = 500

\* One run failed in extraction and got its error while another got a
\* record.
C6_Witness ==
    \E r1, r2 \in Runs :
        /\ ExtractionFailed(r1) /\ Errored(r1)
        /\ Succeeded(r2)

(***************************************************************************)
(* C7.  No internal retries.  In one run the extraction model is called    *)
(* exactly once, drivers_info is queried at most once, the matching model  *)
(* is called at most once, and no external call follows a failed one.      *)
(***************************************************************************)
ExternalCalls == {"structured_llm", "drivers_info", "chofer_match_llm"}

\* The i-th call of run r failed: it raised, or its answer did not validate.
CallFailed(r, i) ==
    LET c == io[r][i]
    IN  \/ c.answer.raised
        \/ c.call = "structured_llm" /\ Invalid(request[r].app, Val(c.answer.value))
        \/ c.call = "chofer_match_llm" /\ ~ChoferMatchSchema(Val(c.answer.value))

C7_NoRetries ==
    \A r \in Runs :
        /\ Cardinality(CallsTo(r, "structured_llm")) <= 1
        /\ Done(r) => Cardinality(CallsTo(r, "structured_llm")) = 1
        /\ Cardinality(CallsTo(r, "drivers_info")) <= 1
        /\ Cardinality(CallsTo(r, "chofer_match_llm")) <= 1
        /\ \A i, j \in 1..Len(io[r]) :
               i < j /\ CallFailed(r, i) => io[r][j].call \notin ExternalCalls

\* A run whose matching call failed has answered after three calls.
C7_Witness ==
    \E r \in Runs :
        /\ Done(r)
        /\ MatchRaised(r)
        /\ Cardinality({i \in 1..Len(io[r]) : io[r][i].call \in ExternalCalls}) = 3

(***************************************************************************)
(* C8.  Stage ordering.  In a rendicion run identity resolution starts     *)
(* only after extraction has succeeded, and works on its output; when      *)
(* extraction fails neither drivers_info nor the matching model is called. *)
(* Receipt and fuel-slip runs call the extraction model and nothing else.  *)
(***************************************************************************)
C8_StageOrdering ==
    \A r \in Runs :
        /\ pc[r] \in {"identify_chofer", "chofer_match"} =>
               /\ Rendicion(r)
               /\ ExtractionSucceeded(r)
               /\ state[r].result = Some(Extracted(r))
        /\ CallsTo(r, "drivers_info") \cup CallsTo(r, "chofer_match_llm") # {} =>
               /\ Rendicion(r)
               /\ ExtractionSucceeded(r)
        /\ \A i \in CallsTo(r, "structured_llm") :
               \A j \in CallsTo(r, "drivers_info") : i < j
        /\ \A i \in CallsTo(r, "drivers_info") :
               \A j \in CallsTo(r, "chofer_match_llm") : i < j
        /\ CallsTo(r, "chofer_match_llm") # {} => CallsTo(r, "drivers_info") # {}
        /\ ~Rendicion(r) =>
               \A i \in 1..Len(io[r]) : io[r][i].call = "structured_llm"

\* One rendicion run has gone through both stages; another run is a
\* rendicion that failed in extraction, or a receipt or fuel-slip run that
\* returned its record.
C8_Witness ==
    \E r1, r2 \in Runs :
        /\ Rendicion(r1) /\ Done(r1) /\ CallsTo(r1, "chofer_match_llm") # {}
        /\ Done(r2)
        /\ \/ Rendicion(r2) /\ ExtractionFailed(r2)
           \/ ~Rendicion(r2) /\ Succeeded(r2)

(***************************************************************************)
(* C9.  Concurrent runs are independent.  Whatever the interleaving, a     *)
(* run's record or error is the one the same run yields when executed      *)
(* alone on the same external answers, and a run neither reads nor writes  *)
(* the image_url, conductor_description or result of another run.          *)
(***************************************************************************)
\* The answer to the call of that name among `calls`.
AnswerIn(calls, name) ==
    calls[CHOOSE i \in 1..Len(calls) : calls[i].call = name].answer

\* The handler's answer for a record the rendicion graph returned.
AloneReturn(rec, calls) ==
    IF IsNone(rec.fecha)
    THEN RendicionResponse(
             [rec EXCEPT !.fecha = Some(strftime(Val(AnswerIn(calls, "now").value)))])
    ELSE RendicionResponse(rec)

\* A rendicion run executed start to end on the answers in `calls`.
AloneRendicion(calls) ==
    LET a == AnswerIn(calls, "structured_llm")
        d == AnswerIn(calls, "drivers_info")
        m == AnswerIn(calls, "chofer_match_llm")
        rec == Val(a.value)
    IN  IF a.raised \/ ~RendicionSchema(rec) THEN HTTPException
        ELSE IF ~Truthy(rec.chofer) THEN AloneReturn(rec, calls)
        ELSE IF d.raised THEN HTTPException
        ELSE IF Val(d.value) = << >> THEN AloneReturn(rec, calls)
        ELSE IF m.raised \/ ~ChoferMatchSchema(Val(m.value))
             THEN AloneReturn(rec, calls)
        ELSE AloneReturn([rec EXCEPT !.chofer_info = Val(m.value).chofer], calls)

\* Any run executed start to end, alone, on the answers in `calls`.
Alone(req, calls) ==
    LET a == AnswerIn(calls, "structured_llm")
    IN  CASE req.app = "app" ->
               IF a.raised \/ ~ReceiptSchema(Val(a.value))
               THEN HTTPException
               ELSE ReceiptResponse(Val(a.value))
          [] req.app = "app2" ->
               IF a.raised \/ ~RemitoCombustibleSchema(Val(a.value))
               THEN RemitoCrashed
               ELSE RemitoPrinted(Val(a.value))
          [] req.app = "app_rendicion" -> AloneRendicion(calls)

C9_RunsIndependent ==
    \A r \in Runs :
        /\ state[r].image_url = request[r].image_url
        /\ state[r].conductor_description = request[r].conductor_description
        /\ \A i \in 1..Len(io[r]) :
               /\ io[r][i].image_url = request[r].image_url
               /\ io[r][i].conductor_description = request[r].conductor_description
        /\ IsNone(state[r].result) = ~ExtractionSucceeded(r)
        /\ pc[r] \in {"identify_chofer", "chofer_match"} =>
               state[r].result = Some(Extracted(r))
        /\ Done(r) => response[r] = Some(Alone(request[r], io[r]))

\* Two rendicion runs on the same request have both answered, one with a
\* record carrying a matched chofer and one with an error.
C9_Witness ==
    \E r1, r2 \in Runs :
        /\ r1 # r2
        /\ request[r1] = request[r2]
        /\ Rendicion(r1)
        /\ Succeeded(r1) /\ ~IsNone(Body(r1).chofer_info) /\ ~MatchRaised(r1)
        /\ CallsTo(r1, "chofer_match_llm") # {}
        /\ Errored(r2)

(***************************************************************************)
(* C10.  Record lifecycle, as claimed: within a run the record is produced *)
(* once, by the Extraction Stage; afterwards it is modified at most once,  *)
(* by the Identity Resolution Stage, which only sets the resolved          *)
(* identity; no later step changes any field before the record is          *)
(* returned.                                                               *)
(***************************************************************************)
\* Run r's record comes into being in this step, written by extraction.
Produced(r) ==
    IsNone(state[r].result) /\ ~IsNone(state'[r].result) => pc[r] = "analyze"

\* Run r's record is the same before and after this step.
Kept(r) == state'[r].result = state[r].result

\* This step is the Identity Resolution Stage of run r setting chofer_info
\* and nothing else, after which the stage is over.
IdentityAdded(r) ==
    /\ pc[r] = "chofer_match"
    /\ pc'[r] = "respond"
    /\ ~IsNone(state'[r].result)
    /\ [Val(state'[r].result) EXCEPT !.chofer_info = Val(state[r].result).chofer_info]
           = Val(state[r].result)

\* This step is the handler of run r putting today's date in a fecha that
\* was None and nothing else, as it answers.
FechaDefaulted(r) ==
    /\ pc[r] = "respond"
    /\ pc'[r] = "done"
    /\ IsNone(Val(state[r].result).fecha)
    /\ ~IsNone(state'[r].result)
    /\ \E now \in Todays :
           Val(state'[r].result) =
               [Val(state[r].result) EXCEPT !.fecha = Some(strftime(now))]

C10_RecordLifecycle ==
    [][\A r \in Runs :
           /\ Produced(r)
           /\ ~IsNone(state[r].result) => Kept(r) \/ IdentityAdded(r)]_vars

(***************************************************************************)
(* C10, amended: as above, except that the handler of /analyze-rendicion   *)
(* replaces a fecha that is None by today's date before it returns the     *)
(* record; it changes no other field and no fecha that is present.         *)
(***************************************************************************)
C10_RecordLifecycleAmended ==
    [][\A r \in Runs :
           /\ Produced(r)
           /\ ~IsNone(state[r].result) =>
                  Kept(r) \/ IdentityAdded(r) \/ FechaDefaulted(r)]_vars

\* A record that the identity stage and then the handler have both changed
\* has been returned.
C10_Witness ==
    \E r \in Runs :
        /\ Rendicion(r) /\ Succeeded(r)
        /\ Body(r).chofer_info # Extracted(r).chofer_info
        /\ Body(r).fecha # Extracted(r).fecha
        /\ [Body(r) EXCEPT !.chofer_info = Extracted(r).chofer_info,
                           !.fecha = Extracted(r).fecha] = Extracted(r)

(***************************************************************************)
(* C11.  Category mapping is total with fallback.  Whatever label the      *)
(* model produces for a gastos entry, the run yields a record whose        *)
(* categoria is a member of CategoriaGasto, a label outside the taxonomy   *)
(* being mapped to VARIOS; an unmatched label never makes the run fail.    *)
(***************************************************************************)
\* The taxonomy member the claim assigns to a label.
FallbackMapped(label) == IF label \in CategoriaGasto THEN label ELSE "VARIOS"

\* The payload with every gastos label replaced by its taxonomy member.
Relabelled(p) ==
    [p EXCEPT !.gastos = [i \in 1..Len(p.gastos) |->
                            [p.gastos[i] EXCEPT !.categoria = FallbackMapped(@)]]]

\* Run r is a rendicion whose extraction answer is sound but for its
\* labels, and whose directory query did not raise.
OnlyLabelsAtIssue(r) ==
    /\ Rendicion(r)
    /\ CallsTo(r, "structured_llm") # {}
    /\ ~AnswerOf(r, "structured_llm").raised
    /\ RendicionSchema(Relabelled(Extracted(r)))
    /\ ~FetchRaised(r)

C11_CategoriaTotalWithFallback ==
    \A r \in Runs :
        OnlyLabelsAtIssue(r) /\ Done(r) =>
            /\ Succeeded(r)
            /\ Body(r).gastos = Relabelled(Extracted(r)).gastos

(***************************************************************************)
(* C12.  Matrix extraction omits empty and zero cells: no gastos entry of  *)
(* a rendicion record returned as a success has monto = 0.                 *)
(***************************************************************************)
C12_NoZeroMonto ==
    \A r \in Runs :
        Rendicion(r) /\ Succeeded(r) =>
            \A i \in 1..Len(Body(r).gastos) : Body(r).gastos[i].monto # 0

(***************************************************************************)
(* C13.  Currency closure: in every receipt record returned as a success,  *)
(* moneda is None or one of CLP, ARS, BRL, PEN, PYG.                       *)
(***************************************************************************)
Monedas == {"CLP", "ARS", "BRL", "PEN", "PYG"}

C13_MonedaClosed ==
    \A r \in Runs :
        request[r].app = "app" /\ Succeeded(r) =>
            IsNone(Body(r).moneda) \/ Val(Body(r).moneda) \in Monedas

(***************************************************************************)
(* C14.  Every successful /analyze-rendicion response has a fecha.  When   *)
(* the record the graph returned has fecha = None the response carries     *)
(* today's date written dd/MM/yyyy; otherwise it carries the record's      *)
(* fecha unchanged.                                                        *)
(***************************************************************************)
\* The date of Todays written dd/MM/yyyy.
DdMmYyyy(now) ==
    CASE now = [day |-> 2, month |-> 11, year |-> 2026] -> "02/11/2026"

C14_FechaAlwaysPresent ==
    \A r \in Runs :
        Rendicion(r) /\ Done(r) /\ ExtractionSucceeded(r) /\ ~FetchRaised(r) =>
            /\ Succeeded(r)
            /\ ~IsNone(Body(r).fecha)
            /\ IsNone(Extracted(r).fecha) =>
                   /\ CallsTo(r, "now") # {}
                   /\ Body(r).fecha = Some(DdMmYyyy(Val(AnswerOf(r, "now").value)))
            /\ ~IsNone(Extracted(r).fecha) =>
                   /\ CallsTo(r, "now") = {}
                   /\ Body(r).fecha = Extracted(r).fecha

\* One response carries a defaulted single-digit date, another the fecha
\* read from the sheet.
C14_Witness ==
    \E r1, r2 \in Runs :
        /\ Rendicion(r1) /\ Succeeded(r1) /\ IsNone(Extracted(r1).fecha)
        /\ Body(r1).fecha = Some("02/11/2026")
        /\ Rendicion(r2) /\ Succeeded(r2) /\ ~IsNone(Extracted(r2).fecha)
        /\ Body(r2).fecha = Extracted(r2).fecha

(***************************************************************************)
(* C15.  The Identity Resolution Stage changes nothing but the resolved    *)
(* identity.  On each of its paths (empty chofer, empty directory, match,  *)
(* matching error) numero_op, fecha, chofer, gastos and viaticos of the    *)
(* record and the run's image_url and conductor_description are the same   *)
(* after the stage as before it; a record extracted with numero_op = None  *)
(* and a chofer keeps both whatever the outcome of the resolution.         *)
(***************************************************************************)
ExtractedFields == {"numero_op", "fecha", "chofer", "gastos", "viaticos"}

\* The stage of run r is about to start / is under way or over.
StageStarts(r) == pc[r] = "identify_chofer"

StageEntered(r) == Rendicion(r) /\ pc[r] \in {"chofer_match", "respond"}

C15_StageFrame ==
    \A r \in Runs :
        /\ StageStarts(r) => state[r].result = Some(Extracted(r))
        /\ StageEntered(r) =>
               /\ \A f \in ExtractedFields :
                      Val(state[r].result)[f] = Extracted(r)[f]
               /\ state[r].image_url = request[r].image_url
               /\ state[r].conductor_description = request[r].conductor_description
        /\ Rendicion(r) /\ Succeeded(r) =>
               \A f \in ExtractedFields \ {"fecha"} : Body(r)[f] = Extracted(r)[f]

\* Two sheets with a blank numero_op and a chofer have left the stage, one
\* with a matched identity and one after a matching error.
C15_Witness ==
    \E r1, r2 \in Runs :
        /\ pc[r1] = "respond" /\ pc[r2] = "respond"
        /\ IsNone(Extracted(r1).numero_op) /\ Truthy(Extracted(r1).chofer)
        /\ IsNone(Extracted(r2).numero_op) /\ Truthy(Extracted(r2).chofer)
        /\ Val(state[r1].result).chofer_info = Some(Invented)
        /\ MatchRaised(r2) /\ IsNone(Val(state[r2].result).chofer_info)

(***************************************************************************)
(* C16.  Provenance of the resolved identity.  When the final rendicion    *)
(* record has a chofer_info, the matching model was called in that run,    *)
(* answered successfully, and chofer_info is what it answered; the output  *)
(* of the Extraction Stage never carries a chofer_info, so on the          *)
(* short-circuit and error paths chofer_info is None.                      *)
(***************************************************************************)
C16_IdentityProvenance ==
    \A r \in Runs :
        /\ Rendicion(r) /\ ExtractionSucceeded(r) =>
               IsNone(Extracted(r).chofer_info)
        /\ Rendicion(r) /\ Succeeded(r) /\ ~IsNone(Body(r).chofer_info) =>
               /\ CallsTo(r, "chofer_match_llm") # {}
               /\ ~MatchRaised(r)
               /\ Body(r).chofer_info =
                      Val(AnswerOf(r, "chofer_match_llm").value).chofer

(***************************************************************************)
(* C17.  Every run terminates.  Each graph has one entry stage, analyze,   *)
(* and no cycle: a step of a run always moves it to a later stage, so no   *)
(* stage is visited twice; in a rendicion run identify_chofer is entered   *)
(* whenever extraction succeeds; and, every external call returning or     *)
(* raising, every run of every document type reaches a record or an error. *)
(***************************************************************************)
\* Position of a stage in the chain.
Rank(stage) ==
    CASE stage = "analyze" -> 1
      [] stage = "identify_chofer" -> 2
      [] stage = "chofer_match" -> 3
      [] stage = "respond" -> 4
      [] stage = "done" -> 5

\* Run r does something in this step.
Acts(r) ==
    \/ pc'[r] # pc[r]
    \/ io'[r] # io[r]
    \/ state'[r] # state[r]
    \/ response'[r] # response[r]

\* Extraction of rendicion run r succeeds in this step.
ExtractionSucceeds(r) ==
    Rendicion(r) /\ pc[r] = "analyze" /\ ~IsNone(state'[r].result)

C17_EveryRunTerminates ==
    /\ \A r \in Runs : pc[r] = "analyze"
    /\ [][\A r \in Runs :
              /\ Acts(r) => Rank(pc'[r]) > Rank(pc[r])
              /\ ExtractionSucceeds(r) => pc'[r] = "identify_chofer"]_vars
    /\ <>(\A r \in Runs : Done(r))

\* Every run has ended, one of them after going through analyze,
\* identify_chofer, the matching call and the handler's return.
C17_Witness ==
    /\ \A r \in Runs : Done(r)
    /\ \E r \in Runs :
           /\ Rendicion(r)
           /\ CallsTo(r, "chofer_match_llm") # {}
           /\ Succeeded(r)

=============================================================================
